---- MODULE Spec2Model ----
(***************************************************************************)
(* The SOP document generator of src/main.py (generate_sop_doc and the     *)
(* paragraph / table helpers it calls), as a state machine.                *)
(*                                                                         *)
(* A Python str is a sequence of one-character strings, so that strip,     *)
(* partition, endswith, split and lower are computed character by          *)
(* character.  None is the empty sequence <<>> and a present value x is    *)
(* the one-element sequence <<x>> wherever the code keeps an optional      *)
(* value (last_label, a paragraph's indents, numbering and border).        *)
(* A JSON object is a record that holds exactly the keys that are present; *)
(* a content item that is not an object is the record [nondict |-> ...].   *)
(***************************************************************************)
EXTENDS Integers, Sequences, FiniteSets, TLC

VARIABLES
    pc,                       \* position in generate_sop_doc
    data,                     \* the request body handed to generate_sop_doc
    doc,                      \* body of the document: paragraphs and tables, in order
    footer,                   \* footers written by setup_footer
    sec_idx,                  \* index of the section being rendered (0-based)
    i,                        \* index of the content item being rendered (0-based)
    last_step_level,          \* level of the last emitted step
    last_label,               \* None or the label of the last labelled item
    had_bullets_after_label   \* a bullet was emitted since last_label was set

vars == <<pc, data, doc, footer, sec_idx, i, last_step_level, last_label,
          had_bullets_after_label>>

(***************************************************************************)
(* Bounds of the checked input space.                                      *)
(***************************************************************************)
MaxItems == 3        \* items of the section of a single-section document
MaxWord == 2         \* letters of a generated label word
MaxBullets == 1      \* bullets between the two labels of a label-pair document
MaxSections == 3     \* sections of a multi-section document
MaxRows == 2         \* rows of a revision table

(***************************************************************************)
(* Python str operations.                                                  *)
(***************************************************************************)
None == <<>>

Some(x) == <<x>>

UpperChars ==
    <<"A", "B", "C", "D", "E", "F", "G", "H", "I", "J", "K", "L", "M",
      "N", "O", "P", "Q", "R", "S", "T", "U", "V", "W", "X", "Y", "Z">>

LowerChars ==
    <<"a", "b", "c", "d", "e", "f", "g", "h", "i", "j", "k", "l", "m",
      "n", "o", "p", "q", "r", "s", "t", "u", "v", "w", "x", "y", "z">>

LowerChar(c) ==
    IF \E k \in 1..Len(UpperChars) : UpperChars[k] = c
    THEN LowerChars[CHOOSE k \in 1..Len(UpperChars) : UpperChars[k] = c]
    ELSE c

RECURSIVE Lower(_)
Lower(s) == IF s = <<>> THEN <<>> ELSE <<LowerChar(Head(s))>> \o Lower(Tail(s))

IsSpace(c) == c \in {" ", "\t", "\n", "\r"}

RECURSIVE LStrip(_)
LStrip(s) == IF s /= <<>> /\ IsSpace(Head(s)) THEN LStrip(Tail(s)) ELSE s

RECURSIVE RStrip(_)
RStrip(s) ==
    IF s /= <<>> /\ IsSpace(s[Len(s)]) THEN RStrip(SubSeq(s, 1, Len(s) - 1)) ELSE s

Strip(s) == RStrip(LStrip(s))

EndsWith(s, suffix) ==
    /\ Len(s) >= Len(suffix)
    /\ SubSeq(s, Len(s) - Len(suffix) + 1, Len(s)) = suffix

StartsWith(s, prefix) ==
    /\ Len(s) >= Len(prefix)
    /\ SubSeq(s, 1, Len(prefix)) = prefix

DropLast(s, n) == SubSeq(s, 1, Len(s) - n)

\* sep in s, for a one-character sep
Contains(s, c) == \E k \in 1..Len(s) : s[k] = c

FirstIndex(s, c) == CHOOSE k \in 1..Len(s) : s[k] = c /\ \A j \in 1..(k - 1) : s[j] /= c

\* s.partition(c): the text before the first c, and the text after it
PartitionBefore(s, c) == IF Contains(s, c) THEN SubSeq(s, 1, FirstIndex(s, c) - 1) ELSE s

PartitionAfter(s, c) ==
    IF Contains(s, c) THEN SubSeq(s, FirstIndex(s, c) + 1, Len(s)) ELSE <<>>

\* s.split(sep): cut at each occurrence of sep, leftmost first
RECURSIVE SplitAcc(_, _, _)
SplitAcc(s, sep, cur) ==
    IF s = <<>> THEN <<cur>>
    ELSE IF StartsWith(s, sep)
         THEN <<cur>> \o SplitAcc(SubSeq(s, Len(sep) + 1, Len(s)), sep, <<>>)
         ELSE SplitAcc(Tail(s), sep, Append(cur, Head(s)))

Split(s, sep) == SplitAcc(s, sep, <<>>)

\* dict.get(key, default)
Get(d, key, default) == IF key \in DOMAIN d THEN d[key] ELSE default

\* isinstance(x, dict) for a content item
IsDict(x) == "nondict" \notin DOMAIN x

(***************************************************************************)
(* Module-level tables.                                                    *)
(***************************************************************************)
STEP_INDENTS ==
    [level \in 1..5 |->
        CASE level = 1 -> [left |-> 720, hanging |-> 360]
          [] level = 2 -> [left |-> 1440, hanging |-> 360]
          [] level = 3 -> [left |-> 2160, hanging |-> 180]
          [] level = 4 -> [left |-> 2880, hanging |-> 360]
          [] level = 5 -> [left |-> 3600, hanging |-> 360]]

BULLET_INDENT == [left |-> 360, hanging |-> 360]

S_Objective == <<"O", "b", "j", "e", "c", "t", "i", "v", "e">>

S_ProcessOwner == <<"P", "r", "o", "c", "e", "s", "s", " ", "O", "w", "n", "e", "r">>

S_Input == <<"I", "n", "p", "u", "t">>

S_Dependency == <<"D", "e", "p", "e", "n", "d", "e", "n", "c", "y">>

S_Dependencies == <<"D", "e", "p", "e", "n", "d", "e", "n", "c", "i", "e", "s">>

LABELS_NEEDING_SPACE_AFTER ==
    { S_Objective, S_Objective \o <<"s">>,
      S_ProcessOwner, S_ProcessOwner \o <<"s">>, S_ProcessOwner \o <<"(", "s", ")">>,
      S_Input, S_Input \o <<"s">>, S_Input \o <<"(", "s", ")">>,
      S_Dependency, S_Dependencies, S_Dependency \o <<"(", "i", "e", "s", ")">> }

normalize_label(label) ==
    LET l0 == Strip(label)
        l1 == IF EndsWith(l0, <<"(", "s", ")">>) THEN DropLast(l0, 3) ELSE l0
        l2 == IF EndsWith(l1, <<"(", "i", "e", "s", ")">>)
              THEN DropLast(l1, 5) \o <<"y">>
              ELSE l1
        l3 == IF EndsWith(l2, <<"s">>) /\ ~EndsWith(l2, <<"s", "s">>)
              THEN DropLast(l2, 1)
              ELSE l2
    IN  Lower(l3)

\* "if x:" for a str
Truthy(s) == s /= <<>>

(***************************************************************************)
(* Paragraph helpers.  A paragraph records the helper that made it (fn),   *)
(* its runs, its indents in twips, its numbering reference and its         *)
(* paragraph border.  A run records its text, whether it is bold or        *)
(* italic, and its size in points.  Font name and colour are the same in   *)
(* every run and are left out, as is the optional List Paragraph style.    *)
(***************************************************************************)
Run(text, bold, italic, size) ==
    [text |-> text, bold |-> bold, italic |-> italic, size |-> size]

Para(fn, runs, left_indent, first_line_indent, numPr, pBdr) ==
    [fn |-> fn, runs |-> runs, left_indent |-> left_indent,
     first_line_indent |-> first_line_indent, numPr |-> numPr, pBdr |-> pBdr]

add_horizontal_rule ==
    Para("add_horizontal_rule", <<>>, None, None, None,
         Some([edge |-> "bottom", val |-> "single", sz |-> 6]))

add_empty_paragraph == Para("add_empty_paragraph", <<>>, None, None, None, None)

add_text_paragraph(text, bold, size) ==
    Para("add_text_paragraph", <<Run(text, bold, FALSE, size)>>, None, None, None, None)

add_labelled_paragraph(label, value) ==
    Para("add_labelled_paragraph",
         <<Run(label \o <<":", " ">>, TRUE, FALSE, 11)>>
            \o (IF Truthy(value) THEN <<Run(value, FALSE, FALSE, 11)>> ELSE <<>>),
         None, None, None, None)

add_label_only(label) ==
    Para("add_label_only", <<Run(label \o <<":">>, TRUE, FALSE, 11)>>,
         None, None, None, None)

BulletGlyph == <<"BULLET", " ">>   \* the run "• "

\* add_bullet with the indents of BULLET_INDENT
add_bullet_by_constant(text, indent_level) ==
    LET left_twips == BULLET_INDENT.left + (indent_level * BULLET_INDENT.left)
        hanging_twips == BULLET_INDENT.hanging
    IN  Para("add_bullet",
             <<Run(BulletGlyph, TRUE, FALSE, 11), Run(text, FALSE, FALSE, 11)>>,
             Some(left_twips), Some(-hanging_twips), None, None)

add_bullet(text, indent_level) ==
    LET left_twips == 720 + (indent_level * 720)
        hanging_twips == 360
    IN  Para("add_bullet",
             <<Run(BulletGlyph, TRUE, FALSE, 11), Run(text, FALSE, FALSE, 11)>>,
             Some(left_twips), Some(-hanging_twips), None, None)

\* str(level - 1) is kept as the number it spells
add_numbered_step(text, level) ==
    Para("add_numbered_step", <<Run(text, FALSE, FALSE, 11)>>, None, None,
         Some([ilvl |-> level - 1, numId |-> 100]), None)

add_note(text, preceding_level) ==
    LET level_indent == IF preceding_level \in DOMAIN STEP_INDENTS
                        THEN STEP_INDENTS[preceding_level]
                        ELSE STEP_INDENTS[5]
        left_twips == level_indent.left
    IN  Para("add_note", <<Run(text, FALSE, TRUE, 11)>>, Some(left_twips), None, None, None)

(***************************************************************************)
(* The revision table.  A row of rows_data is a record of the keys of a    *)
(* JSON object, or [nondict |-> "str", str |-> s] for a bare string, or    *)
(* [nondict |-> "num"] for any other JSON value.                           *)
(***************************************************************************)
S_Sep == <<"|", "|", "|">>

RECURSIVE StripAll(_)
StripAll(parts) ==
    IF parts = <<>> THEN <<>> ELSE <<Strip(Head(parts))>> \o StripAll(Tail(parts))

RECURSIVE PadTo3(_)
PadTo3(values) == IF Len(values) < 3 THEN PadTo3(Append(values, <<>>)) ELSE values

RowValues(row_data) ==
    IF IsDict(row_data)
    THEN IF "text" \in DOMAIN row_data
         THEN StripAll(Split(row_data.text, S_Sep))
         ELSE << Get(row_data, "date", <<>>),
                 Get(row_data, "revised_by", <<>>),
                 Get(row_data, "description", <<>>) >>
    ELSE IF row_data.nondict = "str"
         THEN StripAll(Split(row_data.str, S_Sep))
         ELSE << <<>>, <<>>, <<>> >>

col_widths_pct == <<1372, 987, 2641>>

headers ==
    << <<"D", "a", "t", "e">>,
       <<"R", "e", "v", "i", "s", "e", "d", " ", "B", "y">>,
       <<"D", "e", "s", "c", "r", "i", "p", "t", "i", "o", "n">> >>

Cell(text, bold, width, borders) ==
    [text |-> text, bold |-> bold, width |-> width, borders |-> borders]

HeaderRow == [c \in 1..3 |-> Cell(headers[c], TRUE, col_widths_pct[c], {"bottom"})]

\* DataRow with the top border on every row
DataRowAllTop(row_idx, row_data) ==
    LET values == SubSeq(PadTo3(RowValues(row_data)), 1, 3)
    IN  [c \in 1..3 |-> Cell(values[c], FALSE, col_widths_pct[c], {"top"})]

\* zip(row.cells, values[:3], col_widths_pct) over the three cells of the new row
DataRow(row_idx, row_data) ==
    LET values == SubSeq(PadTo3(RowValues(row_data)), 1, 3)
    IN  [c \in 1..3 |->
            Cell(values[c], FALSE, col_widths_pct[c],
                 IF row_idx = 0 THEN {"top"} ELSE {})]

RECURSIVE DataRows(_, _)
DataRows(rows_data, row_idx) ==
    IF row_idx >= Len(rows_data) THEN <<>>
    ELSE <<DataRow(row_idx, rows_data[row_idx + 1])>> \o DataRows(rows_data, row_idx + 1)

add_revision_table(rows_data) ==
    [fn |-> "add_revision_table", width_pct |-> 5000, tblBorders |-> {},
     rows |-> <<HeaderRow>> \o DataRows(rows_data, 0)]

S_Title == <<"S", "O", "P", " ", "T", "i", "t", "l", "e", ":", " ">>

S_Id == <<"S", "O", "P", " ", "I", "D", ":", " ">>

S_IdDefault == <<"S", "O", "P", "-", "I", "D", " ", "T", "B", "D">>

S_TitleDefault == <<"G", "e", "n", "e", "r", "a", "t", "e", "d", " ", "S", "O", "P">>

S_Prepared == <<"P", "r", "e", "p", "a", "r", "e", "d", " ", "B", "y", ":", " ">>

S_Approved == <<"A", "p", "p", "r", "o", "v", "e", "d", " ", "B", "y", ":", " ">>

S_Revision == <<"R", "e", "v", "i", "s", "i", "o", "n", " ", "D", "a", "t", "e", ":", " ">>

(***************************************************************************)
(* generate_sop_doc: the values it reads from the request.                 *)
(***************************************************************************)
sop_title == Get(data, "title", S_TitleDefault)

sop_id == IF Truthy(Get(data, "sop_id", <<>>)) THEN data.sop_id ELSE S_IdDefault

prepared_by == Get(data, "prepared_by", <<>>)

approved_by == Get(data, "approved_by", <<>>)

revision_date == Get(data, "revision_date", <<>>)

sections_data == Get(data, "sections", <<>>)

sec_data == sections_data[sec_idx + 1]

content == Get(sec_data, "content", <<>>)

item == content[i + 1]

item_type == Get(item, "type", "text")

text == Strip(Get(item, "text", <<>>))

\* the title block and the rule under it
HeaderBlock ==
    << Para("generate_sop_doc", <<Run(S_Title \o sop_title, TRUE, FALSE, 18)>>,
            None, None, None, None),
       add_text_paragraph(S_Id \o sop_id, FALSE, 11),
       add_empty_paragraph,
       add_text_paragraph(S_Prepared \o prepared_by, FALSE, 11),
       add_text_paragraph(S_Approved \o approved_by, FALSE, 11),
       add_text_paragraph(S_Revision \o revision_date, FALSE, 11),
       add_horizontal_rule >>

\* the bold section heading and the blank paragraph after it
SectionHeading ==
    IF Truthy(Get(sec_data, "heading", <<>>))
    THEN <<add_text_paragraph(sec_data.heading, TRUE, 11), add_empty_paragraph>>
    ELSE <<>>

setup_footer ==
    [different_first_page |-> TRUE,
     default |-> << <<>>,
                    <<Run(sop_title \o <<" ", "[">> \o sop_id \o <<"]">>, FALSE, FALSE, 10)>>,
                    <<Run(S_Revision \o revision_date, FALSE, FALSE, 10)>> >>,
     first_page |-> << <<>> >>]

\* SpacingBefore without the break that ends the loop over the trigger labels
SpacingBeforeNoBreak(last, had_bullets, new_label) ==
    IF last /= None /\ Truthy(last[1]) /\ had_bullets
    THEN LET norm_last == normalize_label(last[1])
             norm_new == normalize_label(new_label)
             hits == {t \in LABELS_NEEDING_SPACE_AFTER : normalize_label(t) = norm_last}
         IN  IF norm_last /= norm_new
             THEN [n \in 1..Cardinality(hits) |-> add_empty_paragraph]
             ELSE <<>>
    ELSE <<>>

\* the blank paragraphs put before a label: one if the last label had bullets, is
\* another label than the new one and is a label that needs space after it
SpacingBefore(last, had_bullets, new_label) ==
    IF last /= None /\ Truthy(last[1]) /\ had_bullets
    THEN LET norm_last == normalize_label(last[1])
             norm_new == normalize_label(new_label)
         IN  IF /\ norm_last /= norm_new
                /\ \E trigger_label \in LABELS_NEEDING_SPACE_AFTER :
                       normalize_label(trigger_label) = norm_last
             THEN <<add_empty_paragraph>>
             ELSE <<>>
    ELSE <<>>

\* a scan that looks at content[j] only
BulletsFollowNextOnly(c, j) ==
    /\ j < Len(c)
    /\ IsDict(c[j + 1])
    /\ Get(c[j + 1], "type", "") \in {"bullet", "sub_bullet"}

\* the scan over content[j], content[j+1], ... for a bullet, past spacers and
\* past items that are not objects
RECURSIVE BulletsFollowFrom(_, _)
BulletsFollowFrom(c, j) ==
    IF j >= Len(c) THEN FALSE
    ELSE LET next_item == c[j + 1] IN
         IF IsDict(next_item)
         THEN LET next_type == Get(next_item, "type", "") IN
              IF next_type \in {"bullet", "sub_bullet"} THEN TRUE
              ELSE IF next_type /= "spacer" THEN FALSE
              ELSE BulletsFollowFrom(c, j + 1)
         ELSE BulletsFollowFrom(c, j + 1)

HasColon(t) == Contains(t, ":")

LabelOf(t) == IF HasColon(t) THEN Strip(PartitionBefore(t, ":")) ELSE t

ValueOf(t) == IF HasColon(t) THEN Strip(PartitionAfter(t, ":")) ELSE <<>>

\* the paragraph of a labelled item
LabelledParagraph(t, bullets_follow) ==
    IF HasColon(t)
    THEN IF bullets_follow \/ ~Truthy(ValueOf(t))
         THEN add_label_only(LabelOf(t))
         ELSE add_labelled_paragraph(LabelOf(t), ValueOf(t))
    ELSE add_text_paragraph(t, FALSE, 11)

\* the test for a skipped item without the exemption of the spacer
IsSkippedAnyKind(type, t) == ~Truthy(t)

\* "if not text and item_type != 'spacer'"
IsSkipped(type, t) == ~Truthy(t) /\ type /= "spacer"

\* max(1, min(5, level))
ClampLevel(level) ==
    LET m == IF level < 5 THEN level ELSE 5
    IN  IF m > 1 THEN m ELSE 1

\* item.get('level', 1): a JSON number, or a value that is not a number
LevelOf(it) == Get(it, "level", [num |-> TRUE, val |-> 1])

(***************************************************************************)
(* The steps of generate_sop_doc.                                          *)
(***************************************************************************)
InLoop == pc = "items" /\ i < Len(content)

Rendered == InLoop /\ IsDict(item) /\ ~IsSkipped(item_type, text)

NextItem == i' = i + 1 /\ UNCHANGED <<pc, data, footer, sec_idx>>

TitleBlock ==
    /\ pc = "start"
    /\ doc' = HeaderBlock
    /\ last_step_level' = 1
    /\ sec_idx' = 0
    /\ pc' = IF Len(sections_data) > 0 THEN "section" ELSE "footer"
    /\ UNCHANGED <<data, footer, i, last_label, had_bullets_after_label>>

RenderTableSection ==
    /\ pc = "section"
    /\ Get(sec_data, "type", "") = "table"
    /\ doc' = doc \o SectionHeading \o <<add_revision_table(content)>>
    /\ pc' = "endsection"
    /\ UNCHANGED <<data, footer, sec_idx, i, last_step_level, last_label,
                   had_bullets_after_label>>

\* BeginContentSection with the step level reset for each section
BeginContentSectionResetsLevel ==
    /\ pc = "section"
    /\ Get(sec_data, "type", "") /= "table"
    /\ doc' = doc \o SectionHeading
    /\ i' = 0
    /\ last_label' = None
    /\ had_bullets_after_label' = FALSE
    /\ last_step_level' = 1
    /\ pc' = "items"
    /\ UNCHANGED <<data, footer, sec_idx>>

BeginContentSection ==
    /\ pc = "section"
    /\ Get(sec_data, "type", "") /= "table"
    /\ doc' = doc \o SectionHeading
    /\ i' = 0
    /\ last_label' = None
    /\ had_bullets_after_label' = FALSE
    /\ pc' = "items"
    /\ UNCHANGED <<data, footer, sec_idx, last_step_level>>

SkipNonDict ==
    /\ InLoop
    /\ ~IsDict(item)
    /\ NextItem
    /\ UNCHANGED <<doc, last_step_level, last_label, had_bullets_after_label>>

SkipEmpty ==
    /\ InLoop
    /\ IsDict(item)
    /\ IsSkipped(item_type, text)
    /\ NextItem
    /\ UNCHANGED <<doc, last_step_level, last_label, had_bullets_after_label>>

\* RenderHeading that leaves the label state as it is
RenderHeadingKeepsLabel ==
    /\ Rendered
    /\ item_type = "heading"
    /\ doc' = doc \o <<add_text_paragraph(text, TRUE, 11), add_empty_paragraph>>
    /\ NextItem
    /\ UNCHANGED <<last_step_level, last_label, had_bullets_after_label>>

RenderHeading ==
    /\ Rendered
    /\ item_type = "heading"
    /\ doc' = doc \o <<add_text_paragraph(text, TRUE, 11), add_empty_paragraph>>
    /\ last_label' = None
    /\ had_bullets_after_label' = FALSE
    /\ NextItem
    /\ UNCHANGED last_step_level

RenderLabelled ==
    /\ Rendered
    /\ item_type = "labelled"
    /\ doc' = doc \o SpacingBefore(last_label, had_bullets_after_label, LabelOf(text))
                  \o <<LabelledParagraph(text, BulletsFollowFrom(content, i + 1))>>
    /\ last_label' = Some(LabelOf(text))
    /\ had_bullets_after_label' = FALSE
    /\ NextItem
    /\ UNCHANGED last_step_level

RenderBullet ==
    /\ Rendered
    /\ item_type = "bullet"
    /\ doc' = Append(doc, add_bullet(text, 0))
    /\ had_bullets_after_label' = TRUE
    /\ NextItem
    /\ UNCHANGED <<last_step_level, last_label>>

RenderSubBullet ==
    /\ Rendered
    /\ item_type = "sub_bullet"
    /\ doc' = Append(doc, add_bullet(text, 1))
    /\ had_bullets_after_label' = TRUE
    /\ NextItem
    /\ UNCHANGED <<last_step_level, last_label>>

RenderStep ==
    /\ Rendered
    /\ item_type = "step"
    /\ LevelOf(item).num
    /\ LET level == ClampLevel(LevelOf(item).val) IN
         /\ doc' = Append(doc, add_numbered_step(text, level))
         /\ last_step_level' = level
    /\ last_label' = None
    /\ had_bullets_after_label' = FALSE
    /\ NextItem

\* max(1, min(5, level)) raises TypeError when level is not a number
StepLevelTypeError ==
    /\ Rendered
    /\ item_type = "step"
    /\ ~LevelOf(item).num
    /\ pc' = "failed"
    /\ UNCHANGED <<data, doc, footer, sec_idx, i, last_step_level, last_label,
                   had_bullets_after_label>>

RenderNote ==
    /\ Rendered
    /\ item_type = "note"
    /\ doc' = doc \o <<add_empty_paragraph, add_note(text, last_step_level),
                       add_empty_paragraph>>
    /\ NextItem
    /\ UNCHANGED <<last_step_level, last_label, had_bullets_after_label>>

RenderSpacer ==
    /\ Rendered
    /\ item_type = "spacer"
    /\ doc' = Append(doc, add_empty_paragraph)
    /\ NextItem
    /\ UNCHANGED <<last_step_level, last_label, had_bullets_after_label>>

\* RenderText with no paragraph for the kinds it does not know
RenderTextKnownOnly ==
    /\ Rendered
    /\ item_type \notin {"heading", "labelled", "bullet", "sub_bullet", "step", "note",
                         "spacer"}
    /\ doc' = IF item_type = "text"
              THEN Append(doc, add_text_paragraph(text, FALSE, 11))
              ELSE doc
    /\ NextItem
    /\ UNCHANGED <<last_step_level, last_label, had_bullets_after_label>>

RenderText ==
    /\ Rendered
    /\ item_type \notin {"heading", "labelled", "bullet", "sub_bullet", "step", "note",
                         "spacer"}
    /\ doc' = Append(doc, add_text_paragraph(text, FALSE, 11))
    /\ NextItem
    /\ UNCHANGED <<last_step_level, last_label, had_bullets_after_label>>

\* EndSection with a rule after every section
EndSectionAlwaysRule ==
    /\ \/ pc = "endsection"
       \/ pc = "items" /\ i >= Len(content)
    /\ doc' = Append(doc, add_horizontal_rule)
    /\ sec_idx' = sec_idx + 1
    /\ pc' = IF sec_idx + 1 < Len(sections_data) THEN "section" ELSE "footer"
    /\ UNCHANGED <<data, footer, i, last_step_level, last_label,
                   had_bullets_after_label>>

\* the end of a section's turn of the loop: the rule between sections
EndSection ==
    /\ \/ pc = "endsection"
       \/ pc = "items" /\ i >= Len(content)
    /\ doc' = IF sec_idx < Len(sections_data) - 1
              THEN Append(doc, add_horizontal_rule)
              ELSE doc
    /\ sec_idx' = sec_idx + 1
    /\ pc' = IF sec_idx + 1 < Len(sections_data) THEN "section" ELSE "footer"
    /\ UNCHANGED <<data, footer, i, last_step_level, last_label,
                   had_bullets_after_label>>

Finish ==
    /\ pc = "footer"
    /\ footer' = Some(setup_footer)
    /\ pc' = "done"
    /\ UNCHANGED <<data, doc, sec_idx, i, last_step_level, last_label,
                   had_bullets_after_label>>

Next ==
    \/ TitleBlock
    \/ RenderTableSection
    \/ BeginContentSection
    \/ SkipNonDict
    \/ SkipEmpty
    \/ RenderHeading
    \/ RenderLabelled
    \/ RenderBullet
    \/ RenderSubBullet
    \/ RenderStep
    \/ StepLevelTypeError
    \/ RenderNote
    \/ RenderSpacer
    \/ RenderText
    \/ EndSection
    \/ Finish

(***************************************************************************)
(* The requests the render is checked on: three families of documents.     *)
(***************************************************************************)
Item(type, t) == [type |-> type, text |-> t]

StepItem(t, level) == [type |-> "step", text |-> t, level |-> [num |-> TRUE, val |-> level]]

Request(sections) ==
    [title |-> <<"T">>, sop_id |-> <<>>, revision_date |-> <<"D">>, sections |-> sections]

\* items of every kind: with and without text, with and without a level
ItemPool ==
    { Item("labelled", S_Input \o <<"s", ":">>),
      Item("labelled", <<"R", "e", "f", ":", " ", "v">>),
      Item("labelled", <<"R", "e", "f">>),
      Item("bullet", <<"b">>),
      Item("bullet", <<" ">>),
      Item("sub_bullet", <<"c">>),
      [type |-> "spacer"],
      Item("spacer", <<"x">>),
      StepItem(<<"p">>, 3),
      StepItem(<<"p">>, 9),
      StepItem(<<"p">>, 0),
      Item("step", <<"p">>),
      [type |-> "step", level |-> [num |-> TRUE, val |-> 4]],
      [type |-> "step", text |-> <<"q">>, level |-> [num |-> FALSE, val |-> 0]],
      Item("note", <<"n">>),
      Item("heading", <<"h">>),
      Item("text", <<"t">>),
      Item("zzz", <<"u">>),
      [nondict |-> "str"] }

RowPool ==
    { [date |-> <<"d">>, revised_by |-> <<"r">>, description |-> <<"e">>],
      [date |-> <<"d">>],
      [text |-> <<"a", "|", "|", "|", " ", "b">>],
      [text |-> <<"a", "|", "|", "|", "b", "|", "|", "|", "c", "|", "|", "|", "d">>],
      [nondict |-> "str", str |-> <<" ", "a", " ", "|", "|", "|", "b", "|", "|", "|", "c">>],
      [nondict |-> "num"] }

\* one section, every sequence of up to MaxItems items
WalkRequest(d) ==
    \E k \in 0..MaxItems : \E c \in [1..k -> ItemPool] : d = Request(<<[content |-> c]>>)

\* one table section, every sequence of rows up to MaxRows
TableRequest(d) ==
    \E k \in 0..MaxRows : \E r \in [1..k -> RowPool] :
        d = Request(<<[heading |-> <<"H">>, type |-> "table", content |-> r]>>)

UpperChar(c) ==
    IF \E k \in 1..Len(LowerChars) : LowerChars[k] = c
    THEN UpperChars[CHOOSE k \in 1..Len(LowerChars) : LowerChars[k] = c]
    ELSE c

RECURSIVE Upper(_)
Upper(s) == IF s = <<>> THEN <<>> ELSE <<UpperChar(Head(s))>> \o Upper(Tail(s))

LabelAlphabet == {"a", "s"}

TriggerWords == {S_Objective, S_ProcessOwner, S_Input, S_Dependency}

Words == (UNION {[1..k -> LabelAlphabet] : k \in 0..MaxWord}) \cup TriggerWords

\* a word, its plural in "s" and its parenthetical plural
Variants(w) == {w, w \o <<"s">>, w \o <<"(", "s", ")">>}

LabelSet ==
    (UNION {Variants(w) : w \in Words})
        \cup LABELS_NEEDING_SPACE_AFTER
        \cup {Upper(l) : l \in LABELS_NEEDING_SPACE_AFTER}

Bullets(k) == [n \in 1..k |-> Item("bullet", <<"b">>)]

\* a label, up to MaxBullets bullets, a second label
LabelRequest(d) ==
    \E a \in LabelSet, b \in LabelSet, k \in 0..MaxBullets :
        d = Request(<<[content |-> <<Item("labelled", a \o <<":">>)>> \o Bullets(k)
                                      \o <<Item("labelled", b \o <<":">>)>>]>>)

DocItemPool == {StepItem(<<"p">>, 3), StepItem(<<>>, 4), Item("note", <<"n">>)}

DocContents == {<<>>} \cup {<<x>> : x \in DocItemPool}

SectionPool ==
    {[content |-> c] : c \in DocContents}
        \cup {[heading |-> <<"H">>, content |-> c] : c \in DocContents}
        \cup { [type |-> "table"],
               [heading |-> <<"H">>, type |-> "table",
                content |-> <<[date |-> <<"d">>]>>] }

\* up to MaxSections sections of at most one item each
MultiRequest(d) ==
    \/ \E n \in 0..MaxSections : \E s \in [1..n -> SectionPool] : d = Request(s)
    \/ d = [title |-> <<"T">>]

\* the items that may stand between a label with its bullet and the next label
MidPool ==
    { StepItem(<<"p">>, 3), StepItem(<<>>, 4), Item("heading", <<"h">>),
      Item("heading", <<" ">>), Item("note", <<"n">>), Item("text", <<"t">>),
      [type |-> "spacer"], [nondict |-> "str"] }

\* a trigger label and its bullet, at most one item of MidPool, then another label,
\* in the same section or at the start of the next one
ResetRequest(d) ==
    \E k \in 0..1 : \E mid \in [1..k -> MidPool] : \E split \in BOOLEAN :
        LET pre == <<Item("labelled", S_Input \o <<"s", ":">>), Item("bullet", <<"b">>)>>
            last == <<Item("labelled", <<"R", "e", "f", ":">>)>>
        IN  d = Request(IF split
                        THEN <<[content |-> pre \o mid], [content |-> last]>>
                        ELSE <<[content |-> pre \o mid \o last]>>)

Init ==
    /\ pc = "start"
    /\ \/ WalkRequest(data)
       \/ TableRequest(data)
       \/ LabelRequest(data)
       \/ MultiRequest(data)
       \/ ResetRequest(data)
    /\ doc = <<>>
    /\ footer = None
    /\ sec_idx = 0
    /\ i = 0
    /\ last_step_level = 1
    /\ last_label = None
    /\ had_bullets_after_label = FALSE

Spec == Init /\ [][Next]_vars

(***************************************************************************)
(* Properties.  While pc = "items", items 1..i of the section have been    *)
(* walked and what item i emitted is the tail of doc.                      *)
(***************************************************************************)
ItemText(it) == Strip(Get(it, "text", <<>>))

ItemLabel(it) == LabelOf(ItemText(it))

\* the item is rendered by the branch for `type`
IsEmitted(it, type) ==
    IsDict(it) /\ Get(it, "type", "text") = type /\ Truthy(ItemText(it))

IsEmittedBullet(it) == IsEmitted(it, "bullet") \/ IsEmitted(it, "sub_bullet")

\* p is a paragraph rendered for the labelled item it
IsParagraphOfLabel(p, it) ==
    /\ p.fn \in {"add_label_only", "add_labelled_paragraph", "add_text_paragraph"}
    /\ p.runs /= <<>>
    /\ StartsWith(p.runs[1].text, ItemLabel(it))

\* item k is a labelled item, items k+1..i-1 are emitted bullets, item i is a
\* labelled item
LabelThenBullets(k) ==
    /\ k \in 1..(i - 1)
    /\ IsEmitted(content[k], "labelled")
    /\ \A j \in (k + 1)..(i - 1) : IsEmittedBullet(content[j])
    /\ IsEmitted(content[i], "labelled")

\* ... and the label of item k is a trigger label, that of item i another label
TriggerThenOtherLabel(k) ==
    /\ LabelThenBullets(k)
    /\ ItemLabel(content[k]) \in LABELS_NEEDING_SPACE_AFTER
    /\ normalize_label(ItemLabel(content[k])) /= normalize_label(ItemLabel(content[i]))

\* C1: a trigger label, one or more emitted bullets, then another label: exactly one
\* blank paragraph stands between the last bullet and the paragraph of the new
\* label; with no bullet the new label's paragraph follows the trigger label's.
C1_OneBlankBeforeNextLabel ==
    pc = "items" =>
        \A k \in 1..(i - 1) :
            TriggerThenOtherLabel(k) =>
                LET n == Len(doc) IN
                /\ IsParagraphOfLabel(doc[n], content[i])
                /\ IF k + 1 <= i - 1
                   THEN /\ doc[n - 1] = add_empty_paragraph
                        /\ doc[n - 2].fn = "add_bullet"
                   ELSE IsParagraphOfLabel(doc[n - 1], content[k])

C1_Witness ==
    /\ pc = "items"
    /\ \E k \in 1..(i - 1) :
           /\ TriggerThenOtherLabel(k)
           /\ k + 1 <= i - 1
           /\ doc[Len(doc) - 1] = add_empty_paragraph
           /\ doc[Len(doc) - 2].fn = "add_bullet"

\* the forms of one trigger word: the entries of LABELS_NEEDING_SPACE_AFTER for it
\* and its parenthetical form
TriggerFamilies ==
    { Variants(S_Objective), Variants(S_ProcessOwner), Variants(S_Input),
      {S_Dependency, S_Dependencies, S_Dependency \o <<"(", "i", "e", "s", ")">>} }

\* the forms X, Xs, X(s) of a word X that does not end in "s"
WordFamilies == {Variants(w) : w \in {x \in Words : ~EndsWith(x, <<"s">>)}}

SameWord(families, a, b) == \E F \in families : a \in F /\ b \in F

\* the paragraph of item i directly follows the bullet of item i-1
NoBlankBeforeLabel ==
    /\ IsParagraphOfLabel(doc[Len(doc)], content[i])
    /\ doc[Len(doc) - 1].fn = "add_bullet"

\* C2: two labelled items with bullets between them whose labels are forms of the
\* same word normalize to the same value, and no blank paragraph is put before the
\* second.
C2_VariantsAreOneLabel ==
    pc = "items" =>
        \A k \in 1..(i - 2) :
            /\ LabelThenBullets(k)
            /\ SameWord(TriggerFamilies \cup WordFamilies,
                        ItemLabel(content[k]), ItemLabel(content[i]))
            => /\ normalize_label(ItemLabel(content[k]))
                    = normalize_label(ItemLabel(content[i]))
               /\ NoBlankBeforeLabel

\* What holds of C2: the same, for X, Xs, X(s) and for each trigger word but
\* Dependency, whose plural Dependencies normalizes to "dependencie".
VariantsInSAreOneLabel ==
    pc = "items" =>
        \A k \in 1..(i - 2) :
            /\ LabelThenBullets(k)
            /\ SameWord((TriggerFamilies \cup WordFamilies)
                            \ {{S_Dependency, S_Dependencies,
                                S_Dependency \o <<"(", "i", "e", "s", ")">>}},
                        ItemLabel(content[k]), ItemLabel(content[i]))
            => /\ normalize_label(ItemLabel(content[k]))
                    = normalize_label(ItemLabel(content[i]))
               /\ NoBlankBeforeLabel

\* a is a trigger label in some letter case
IsTriggerInAnyCase(a) == \E t \in LABELS_NEEDING_SPACE_AFTER : Lower(t) = Lower(a)

\* C3: labels are compared without regard to letter case: after a trigger label in
\* any case and its bullets, a label that is another label when case is ignored
\* gets the blank paragraph, and one that is the same label when case is ignored
\* gets none.
C3_CaseInsensitive ==
    pc = "items" =>
        \A k \in 1..(i - 2) :
            LabelThenBullets(k) =>
                LET a == ItemLabel(content[k])
                    b == ItemLabel(content[i])
                IN  /\ normalize_label(Lower(a)) = normalize_label(Lower(b))
                           => NoBlankBeforeLabel
                    /\ (/\ IsTriggerInAnyCase(a)
                        /\ normalize_label(Lower(a)) /= normalize_label(Lower(b)))
                           => doc[Len(doc) - 1] = add_empty_paragraph

\* section s (1-based) is walked item by item
IsContentSection(s) == Get(sections_data[s], "type", "") /= "table"

ContentOf(s) == Get(sections_data[s], "content", <<>>)

\* the places <<section, item>> of the steps emitted before item j of section s
EmittedStepsBefore(s, j) ==
    UNION { { <<s2, j2>> : j2 \in { x \in 1..Len(ContentOf(s2)) :
                                      /\ s2 < s \/ x < j
                                      /\ IsEmitted(ContentOf(s2)[x], "step") } }
            : s2 \in { y \in 1..s : IsContentSection(y) } }

IsLater(p, q) == p[1] > q[1] \/ (p[1] = q[1] /\ p[2] > q[2])

\* the clamped level of the last step emitted before item j of section s, 1 if none
LevelBefore(s, j) ==
    LET P == EmittedStepsBefore(s, j) IN
    IF P = {} THEN 1
    ELSE LET p == CHOOSE x \in P : \A q \in P : ~IsLater(q, x)
         IN  ClampLevel(LevelOf(ContentOf(p[1])[p[2]]).val)

\* C4: the note paragraph of every emitted note has the left indent of the level of
\* the last step emitted before it in the document, in this section or an earlier
\* one, and the left indent of level 1 if there is none; a step with empty text is
\* not counted.
C4_NoteAlignsToLastStep ==
    (pc = "items" /\ i >= 1 /\ IsEmitted(content[i], "note")) =>
        LET p == doc[Len(doc) - 1] IN
        /\ p.fn = "add_note"
        /\ p.left_indent = Some(STEP_INDENTS[LevelBefore(sec_idx + 1, i)].left)
        /\ EmittedStepsBefore(sec_idx + 1, i) = {} => p.left_indent = Some(720)

\* a note in a later section than the last step, which was of level 3
C4_Witness ==
    /\ pc = "items" /\ i >= 1 /\ sec_idx >= 1
    /\ IsEmitted(content[i], "note")
    /\ EmittedStepsBefore(sec_idx + 1, i) /= {}
    /\ \A p \in EmittedStepsBefore(sec_idx + 1, i) : p[1] < sec_idx + 1
    /\ doc[Len(doc) - 1].left_indent = Some(2160)

\* a paragraph of one bold run: the label and a colon
IsLabelOnlyParagraph(p, label) ==
    p.runs = <<Run(label \o <<":">>, TRUE, FALSE, 11)>>

\* a paragraph of a bold run "label: " and a plain run of the value
IsInlineParagraph(p, label, value) ==
    p.runs = <<Run(label \o <<":", " ">>, TRUE, FALSE, 11), Run(value, FALSE, FALSE, 11)>>

\* after item k of c, past spacers only, comes an item of kind bullet or sub_bullet
BulletAheadPastSpacers(c, k) ==
    \E j \in (k + 1)..Len(c) :
        /\ IsDict(c[j]) /\ Get(c[j], "type", "") \in {"bullet", "sub_bullet"}
        /\ \A m \in (k + 1)..(j - 1) : IsDict(c[m]) /\ Get(c[m], "type", "") = "spacer"

\* ... past spacers and past items that are not objects
BulletAhead(c, k) ==
    \E j \in (k + 1)..Len(c) :
        /\ IsDict(c[j]) /\ Get(c[j], "type", "") \in {"bullet", "sub_bullet"}
        /\ \A m \in (k + 1)..(j - 1) : IsDict(c[m]) => Get(c[m], "type", "") = "spacer"

\* item i of the section is a labelled item that has just been rendered
LabelledRendered == pc = "items" /\ i >= 1 /\ IsEmitted(content[i], "labelled")

\* C5: a labelled item whose value is empty (text ending in a colon, or text with no
\* colon) or that is followed, past spacers, by a bullet or sub-bullet is rendered as
\* one paragraph of the bold label and colon; every other labelled item is rendered
\* as bold label, colon, space and the plain value.
C5_LabelOnlyOrInline ==
    LabelledRendered =>
        LET t == ItemText(content[i])
            p == doc[Len(doc)]
        IN  IF ~Truthy(ValueOf(t)) \/ BulletAheadPastSpacers(content, i)
            THEN IsLabelOnlyParagraph(p, LabelOf(t))
            ELSE IsInlineParagraph(p, LabelOf(t), ValueOf(t))

\* C5 (as the code has it): a labelled item whose text has a colon is rendered as
\* one paragraph of the bold label and colon if its value is empty or if the next
\* item that is an object and not a spacer is of kind bullet or sub_bullet, and as
\* bold label, colon, space and plain value otherwise; a labelled item whose text
\* has no colon is rendered as one plain paragraph of the text.
C5_LabelOnlyInlineOrPlain ==
    LabelledRendered =>
        LET t == ItemText(content[i])
            p == doc[Len(doc)]
        IN  IF ~HasColon(t)
            THEN p.runs = <<Run(t, FALSE, FALSE, 11)>>
            ELSE IF ~Truthy(ValueOf(t)) \/ BulletAhead(content, i)
                 THEN IsLabelOnlyParagraph(p, LabelOf(t))
                 ELSE IsInlineParagraph(p, LabelOf(t), ValueOf(t))

\* a label with a value, a spacer, then a bullet: the label is rendered alone
C5_Witness ==
    /\ LabelledRendered
    /\ Truthy(ValueOf(ItemText(content[i])))
    /\ i + 2 <= Len(content)
    /\ IsDict(content[i + 1]) /\ Get(content[i + 1], "type", "") = "spacer"
    /\ BulletAhead(content, i)
    /\ IsLabelOnlyParagraph(doc[Len(doc)], LabelOf(ItemText(content[i])))

IsRule(p) == p.fn = "add_horizontal_rule"

\* the places of the horizontal rules in the document
RulePositions == {k \in 1..Len(doc) : IsRule(doc[k])}

\* the place of the s-th rule
NthRule(s) == CHOOSE k \in RulePositions : Cardinality({x \in RulePositions : x < k}) = s - 1

\* the paragraphs between the s-th rule and the next one, or the end of the document
Segment(s) ==
    SubSeq(doc, NthRule(s) + 1,
           IF s < Cardinality(RulePositions) THEN NthRule(s + 1) - 1 ELSE Len(doc))

CountOf(seg, fn) == Cardinality({k \in 1..Len(seg) : seg[k].fn = fn})

EmittedIn(s, type) ==
    Cardinality({k \in 1..Len(ContentOf(s)) : IsEmitted(ContentOf(s)[k], type)})

\* seg holds what section s renders: its heading first, then its table or its items
IsSegmentOf(seg, s) ==
    LET heading == Get(sections_data[s], "heading", <<>>)
        body == IF Truthy(heading) THEN SubSeq(seg, 3, Len(seg)) ELSE seg
    IN  /\ Truthy(heading) =>
              /\ Len(seg) >= 2
              /\ seg[1] = add_text_paragraph(heading, TRUE, 11)
              /\ seg[2] = add_empty_paragraph
        /\ IF IsContentSection(s)
           THEN /\ CountOf(body, "add_revision_table") = 0
                /\ CountOf(body, "add_numbered_step") = EmittedIn(s, "step")
                /\ CountOf(body, "add_note") = EmittedIn(s, "note")
                /\ CountOf(body, "add_bullet")
                       = EmittedIn(s, "bullet") + EmittedIn(s, "sub_bullet")
           ELSE /\ Len(body) = 1
                /\ body[1].fn = "add_revision_table"

\* C6: a finished document of n sections has one rule under the title block and one
\* between each two adjacent sections, 1 + max(0, n-1) in all, none after the last
\* section, and between the rules the sections in their order.
C6_RulesBetweenSections ==
    pc = "done" =>
        LET n == Len(sections_data) IN
        /\ Cardinality(RulePositions) = 1 + (IF n - 1 > 0 THEN n - 1 ELSE 0)
        /\ NthRule(1) = 7
        /\ n = 0 => Len(doc) = 7
        /\ \A s \in 1..n : IsSegmentOf(Segment(s), s)

\* three sections, a table among them and a step in another, and three rules
C6_Witness ==
    /\ pc = "done"
    /\ Len(sections_data) = 3
    /\ Cardinality(RulePositions) = 3
    /\ \E s \in 1..3 : ~IsContentSection(s)
    /\ \E s \in 1..3 : IsContentSection(s) /\ EmittedIn(s, "step") = 1
    /\ \A s \in 1..3 : IsSegmentOf(Segment(s), s)

\* a level brought into 1..5
Clamped(v) == IF v < 1 THEN 1 ELSE IF v > 5 THEN 5 ELSE v

\* the paragraph of a step just emitted refers to numbering definition 100 at the
\* clamped level less one, and the clamped level is the last step level
StepIsClamped ==
    (pc = "items" /\ i >= 1 /\ IsEmitted(content[i], "step")) =>
        LET level == Clamped(LevelOf(content[i]).val)
            p == doc[Len(doc)]
        IN  /\ p.fn = "add_numbered_step"
            /\ p.numPr = Some([ilvl |-> level - 1, numId |-> 100])
            /\ level - 1 \in 0..4
            /\ last_step_level = level

\* C7: a step with any level value never makes the render fail; the level is
\* clamped to 1..5 (1 when missing), the paragraph refers to numbering definition
\* 100 at the clamped level less one, and the last step level is the clamped level.
C7_StepNeverFails ==
    /\ pc /= "failed"
    /\ StepIsClamped

\* C8: in the walk of a content section, an item of a kind other than spacer whose
\* stripped text is empty or missing adds no paragraph and leaves last_label,
\* had_bullets_after_label and last_step_level as they are; a spacer, whatever its
\* text, adds exactly one blank paragraph and leaves them as they are too.
C8_EmptySkippedSpacerEmits ==
    [][ (pc = "items" /\ i < Len(content) /\ IsDict(content[i + 1])) =>
          LET it == content[i + 1]
              kind == Get(it, "type", "text")
          IN  /\ (kind /= "spacer" /\ ItemText(it) = <<>>) =>
                    /\ doc' = doc
                    /\ i' = i + 1
                    /\ UNCHANGED <<last_label, had_bullets_after_label, last_step_level>>
              /\ kind = "spacer" =>
                    /\ doc' = Append(doc, add_empty_paragraph)
                    /\ i' = i + 1
                    /\ UNCHANGED <<last_label, had_bullets_after_label, last_step_level>>
      ]_vars

\* a step with empty text has just been passed over after a label and its bullet,
\* and the label state is still there
C8_Witness ==
    /\ pc = "items" /\ i >= 3
    /\ IsDict(content[i])
    /\ Get(content[i], "type", "text") = "step"
    /\ ItemText(content[i]) = <<>>
    /\ IsEmittedBullet(content[i - 1])
    /\ last_label /= None
    /\ had_bullets_after_label
    /\ doc[Len(doc)].fn = "add_bullet"

KnownKinds ==
    {"text", "labelled", "bullet", "sub_bullet", "step", "note", "spacer", "heading"}

HasUnknownKind(it) == IsDict(it) /\ Get(it, "type", "text") \notin KnownKinds

\* the walk passes over the item: no paragraph, and on to the next item
PassedOver == doc' = doc /\ i' = i + 1 /\ pc' = pc

Walking == pc = "items" /\ i < Len(content)

BulletRendered == pc = "items" /\ i >= 1 /\ IsEmittedBullet(content[i])

\* 0 for a bullet, 1 for a sub-bullet
IndentLevelOf(it) == IF Get(it, "type", "text") = "bullet" THEN 0 ELSE 1

PartsOf(row_data) ==
    IF IsDict(row_data)
    THEN IF "text" \in DOMAIN row_data
         THEN StripAll(Split(row_data.text, S_Sep))
         ELSE << Get(row_data, "date", <<>>), Get(row_data, "revised_by", <<>>),
                 Get(row_data, "description", <<>>) >>
    ELSE IF row_data.nondict = "str"
         THEN StripAll(Split(row_data.str, S_Sep))
         ELSE <<>>

\* the table section has just been rendered
TableRendered == pc = "endsection" /\ doc[Len(doc)].fn = "add_revision_table"

\* C11: the table of a table section with N input rows of any shape has N+1 rows,
\* the header and one per input row; each data row has exactly three cells, holding
\* the first three parts of the input row, with empty text for a missing part; the
\* only borders are the bottom edge of the header cells and the top edge of the
\* cells of the first data row.
C11_TableRowsAndBorders ==
    TableRendered =>
        LET t == doc[Len(doc)]
            N == Len(content)
        IN  /\ Len(t.rows) = N + 1
            /\ t.tblBorders = {}
            /\ \A r \in 1..(N + 1) : DOMAIN t.rows[r] = 1..3
            /\ \A c \in 1..3 : t.rows[1][c].borders = {"bottom"}
            /\ \A r \in 1..N : \A c \in 1..3 :
                   LET parts == PartsOf(content[r])
                       cell == t.rows[r + 1][c]
                   IN  /\ cell.text = IF c <= Len(parts) THEN parts[c] ELSE <<>>
                       /\ cell.borders = IF r = 1 THEN {"top"} ELSE {}

\* a table of two rows, one of fewer than three parts and one of more than three
C11_Witness ==
    /\ TableRendered
    /\ Len(content) = 2
    /\ Len(doc[Len(doc)].rows) = 3
    /\ \E r \in 1..2 : Len(PartsOf(content[r])) < 3
    /\ \E r \in 1..2 : Len(PartsOf(content[r])) > 3
    /\ doc[Len(doc)].rows[3][1].borders = {}

\* item k of the section is an emitted step or heading
IsReset(k) == IsEmitted(content[k], "step") \/ IsEmitted(content[k], "heading")

\* no labelled item is emitted between the start of the section, or an emitted step
\* or heading, and item j
FirstLabelAfterReset(j) ==
    \E k \in 0..(j - 1) :
        /\ k = 0 \/ IsReset(k)
        /\ \A m \in (k + 1)..(j - 1) : ~IsEmitted(content[m], "labelled")

\* item k is a trigger label, a bullet is emitted after it, and no label, step or
\* heading is emitted between it and item j, a labelled item of another label
TriggerBulletsStillPending(k, j) ==
    /\ IsEmitted(content[k], "labelled")
    /\ ItemLabel(content[k]) \in LABELS_NEEDING_SPACE_AFTER
    /\ normalize_label(ItemLabel(content[k])) /= normalize_label(ItemLabel(content[j]))
    /\ \E m \in (k + 1)..(j - 1) : IsEmittedBullet(content[m])
    /\ \A m \in (k + 1)..(j - 1) : ~IsEmitted(content[m], "labelled") /\ ~IsReset(m)

\* C12: last_label and had_bullets_after_label are cleared at the start of every
\* content section and by every emitted step or heading, and by nothing else: the
\* first labelled item after such a point gets no blank paragraph before it,
\* whatever labels and bullets came before, while items of other kinds between a
\* trigger label with bullets and the next label do not take the blank away.
C12_LabelStateResets ==
    [][ /\ (pc = "section" /\ pc' = "items") =>
              last_label' = None /\ ~had_bullets_after_label'
        /\ (Walking /\ IsReset(i + 1) /\ pc' = "items") =>
              last_label' = None /\ ~had_bullets_after_label'
        /\ (last_label /= None /\ last_label' = None) =>
              \/ pc = "section"
              \/ Walking /\ IsReset(i + 1)
        /\ (Walking /\ IsEmitted(content[i + 1], "labelled")) =>
              /\ FirstLabelAfterReset(i + 1) =>
                    /\ Len(doc') = Len(doc) + 1
                    /\ IsParagraphOfLabel(doc'[Len(doc')], content[i + 1])
              /\ (\E k \in 1..i : TriggerBulletsStillPending(k, i + 1)) =>
                    /\ Len(doc') = Len(doc) + 2
                    /\ doc'[Len(doc) + 1] = add_empty_paragraph
      ]_vars

\* a label has just been rendered right after the rule that opens a second section,
\* or right after a step, though a trigger label and its bullet came before
C12_Witness ==
    /\ pc = "items" /\ i >= 1
    /\ IsEmitted(content[i], "labelled")
    /\ FirstLabelAfterReset(i)
    /\ \/ sec_idx = 1 /\ Len(ContentOf(1)) >= 2
                      /\ IsEmitted(ContentOf(1)[1], "labelled")
                      /\ ItemLabel(ContentOf(1)[1]) \in LABELS_NEEDING_SPACE_AFTER
                      /\ IsEmittedBullet(ContentOf(1)[2])
       \/ i = 4 /\ IsEmitted(content[1], "labelled")
                /\ ItemLabel(content[1]) \in LABELS_NEEDING_SPACE_AFTER
                /\ IsEmittedBullet(content[2]) /\ IsReset(3)
    /\ doc[Len(doc) - 1].fn \in {"add_numbered_step", "add_horizontal_rule"}

\* an item that adds no paragraph but a blank one: not an object, a spacer, or an
\* item with empty text
IsTransparent(it) ==
    ~IsDict(it) \/ Get(it, "type", "text") = "spacer" \/ ItemText(it) = <<>>

\* the spacers among items a..b of the section
SpacersIn(a, b) ==
    Cardinality({m \in a..b : IsDict(content[m]) /\ Get(content[m], "type", "text") = "spacer"})

\* item k is a labelled item with a value, rendered as its label alone, and nothing
\* but blank paragraphs has been added up to item i
ValueDroppedAt(k) ==
    /\ IsEmitted(content[k], "labelled")
    /\ Truthy(ValueOf(ItemText(content[k])))
    /\ \A m \in (k + 1)..i : IsTransparent(content[m])
    /\ Len(doc) > SpacersIn(k + 1, i)
    /\ IsLabelOnlyParagraph(doc[Len(doc) - SpacersIn(k + 1, i)],
                            LabelOf(ItemText(content[k])))

\* the next item to add a paragraph that is not blank is a bullet or sub-bullet
BulletComesNext ==
    /\ i < Len(content)
    /\ IsTransparent(content[i + 1]) \/ IsEmittedBullet(content[i + 1])

\* C13: no value is lost to the lookahead: when a labelled item with a value after
\* the colon is rendered as its label alone, a bullet or sub-bullet paragraph is
\* emitted after it before any other paragraph of the section that is not blank.
C13_NoValueLost ==
    pc = "items" => \A k \in 1..i : ValueDroppedAt(k) => BulletComesNext

\* every item of kind bullet or sub_bullet after item k has text
BulletsHaveText(k) ==
    \A m \in (k + 1)..Len(content) :
        (IsDict(content[m]) /\ Get(content[m], "type", "") \in {"bullet", "sub_bullet"})
            => ItemText(content[m]) /= <<>>

\* the same when the bullets of the section all have text
ValueKeptWhenBulletsHaveText ==
    pc = "items" =>
        \A k \in 1..i : (ValueDroppedAt(k) /\ BulletsHaveText(k)) => BulletComesNext
====
